---- MODULE Spec2Model ----
(***************************************************************************)
(* Model of resume_compare: DataPreprocessor (src/src/preprocessor.py) and *)
(* DataComparator (src/src/comparator.py).                                 *)
(*                                                                         *)
(* A text is a sequence of Unicode code points, a token is a text, a       *)
(* tagged token is a pair <<token, tag>>.  Percentages are integers in     *)
(* hundredths (10000 is 100.0, 6667 is 66.67): both scorers round to two   *)
(* decimals.                                                               *)
(***************************************************************************)
EXTENDS Integers, Sequences, FiniteSets, TLC

VARIABLES
    pc,                 \* "call": the call described below is pending; "done": it ended
    op,                 \* the operation called
    lang,               \* the lang argument (DataComparator.lang)
    data,               \* the text argument (DataComparator.resume_data)
    data2,              \* DataComparator.vacancy_data
    token_list,         \* the token_list argument of a stage
    tagged_token_list,  \* the tagged_token_list argument of _filter_token_tag
    filter_tag_list,    \* the filter_tag_list argument of _filter_token_tag
    tagged,             \* pos_tagged_tokens of the (resume) text, as the tagger gave them
    tagged2,            \* pos_tagged_tokens of the vacancy text
    ret,                \* how the call ended
    loads,              \* how often each language resource was loaded in this process
    ncalls              \* calls made so far in this process

vars == <<pc, op, lang, data, data2, token_list, tagged_token_list,
          filter_tag_list, tagged, tagged2, ret, loads, ncalls>>

(***************************************************************************)
(* Bounds of the model.                                                    *)
(***************************************************************************)
MaxLen == 3        \* characters of a text given to _clean_text
MaxToks == 3       \* tokens of a list given to a stage
MaxDocWords == 2   \* words of a document given to an extractor or a scorer
MaxCalls == 3      \* calls of one process

(***************************************************************************)
(* Characters, by code point.                                              *)
(***************************************************************************)
\* 97 65: Latin a, A; 1073 1041: Cyrillic be, BE; 1105: Cyrillic io;
\* 49: digit 1; 32: space; 47: '/'; 44: ','
Chars == {97, 65, 1073, 1041, 1105, 49, 32, 47, 44}

Langs == {"ru", "en", "de"}

\* Python's str.isspace / the regex class \s on str patterns
IsSpace(c) == c \in (9..13) \cup (28..32) \cup {133, 160, 5760} \cup (8192..8202)
                    \cup {8232, 8233, 8239, 8287, 12288}

IsDigit(c) == c \in 48..57

\* the regex ranges a-z A-Z and the Cyrillic ranges U+0430-U+044F, U+0410-U+042F
IsLatinRange(c) == c \in (97..122) \cup (65..90)

IsCyrillicRange(c) == c \in (1072..1103) \cup (1040..1071)

\* the character class the regex of each language negates
RuKeep(c) == IsCyrillicRange(c) \/ IsDigit(c) \/ IsSpace(c) \/ c = 47

EnKeep(c) == IsLatinRange(c) \/ IsDigit(c) \/ IsSpace(c) \/ c = 47

\* re.sub(pattern, "", text): the characters outside the class are dropped
re_sub_ru(text) == SelectSeq(text, LAMBDA c : RuKeep(c))

re_sub_en(text) == SelectSeq(text, LAMBDA c : EnKeep(c))

\* str.replace("/", " ")
replace_slash(text) == [i \in 1..Len(text) |-> IF text[i] = 47 THEN 32 ELSE text[i]]

\* DataPreprocessor._clean_text: two independent ifs, then the replace
_clean_text(text, lg) ==
    LET t1 == IF lg = "ru" THEN re_sub_ru(text) ELSE text
        t2 == IF lg = "en" THEN re_sub_en(t1) ELSE t1
    IN  replace_slash(t2)

\* str.lower() of one character, on the alphabets of the model
lower_char(c) ==
    IF c \in 65..90 THEN c + 32
    ELSE IF c \in 1040..1071 THEN c + 32
    ELSE IF c \in 1024..1039 THEN c + 80
    ELSE c

lower(x) == [i \in 1..Len(x) |-> lower_char(x[i])]

InSeq(x, s) == \E i \in 1..Len(s) : s[i] = x

\* the positions of a sequence, in order
Indices(s) == [i \in 1..Len(s) |-> i]

\* the loop of _unique_tokens: x is appended unless unique_token_list has
\* it, that is unless an earlier token lowercases to x as well
unique_loop(token_list_) ==
    LET x == [i \in 1..Len(token_list_) |-> lower(token_list_[i])]
        appended == SelectSeq(Indices(x), LAMBDA i : \A j \in 1..(i - 1) : x[j] # x[i])
    IN  [k \in 1..Len(appended) |-> x[appended[k]]]

\* a faulty variant of the loop: it looks the token up before lowercasing it
RECURSIVE unique_loop_case(_, _)
unique_loop_case(token_list_, unique_token_list) ==
    IF token_list_ = <<>> THEN unique_token_list
    ELSE LET x == Head(token_list_)
         IN  unique_loop_case(Tail(token_list_),
                         IF ~InSeq(x, unique_token_list)
                         THEN Append(unique_token_list, lower(x))
                         ELSE unique_token_list)

unique_tokens_case_sensitive(token_list_) == unique_loop_case(token_list_, <<>>)

\* DataPreprocessor._unique_tokens
_unique_tokens(token_list_) == unique_loop(token_list_)

\* the comprehension of _filter_token_tag
filter_loop(tagged_token_list_, filter_tag_list_) ==
    LET kept == SelectSeq(tagged_token_list_, LAMBDA t : InSeq(t[2], filter_tag_list_))
    IN  [k \in 1..Len(kept) |-> kept[k][1]]

\* a faulty variant of the filter: it compares with the first tag only
filter_token_tag_first_only(tagged_token_list_, filter_tag_list_) ==
    filter_loop(tagged_token_list_, SubSeq(filter_tag_list_, 1, 1))

\* DataPreprocessor._filter_token_tag (str(item) is the token's text)
_filter_token_tag(tagged_token_list_, filter_tag_list_) ==
    filter_loop(tagged_token_list_, filter_tag_list_)

\* the filter_tag_list of each pipeline
NltkFilterTags == <<"NNP", "NN", "VBP", "JJ">>

SpacyFilterTags == <<"NNP">>

(***************************************************************************)
(* The collaborators, as far as the pipelines use them.                    *)
(***************************************************************************)
\* nltk.word_tokenize / the spaCy tokenizer: words are separated by
\* whitespace, a punctuation character is a token of its own
IsWordChar(c) == IsLatinRange(c) \/ IsCyrillicRange(c) \/ c \in {1105, 1025}
                 \/ IsDigit(c) \/ c = 95

\* the last position of the run of word characters that holds position i
word_end(text, i) ==
    CHOOSE j \in i..Len(text) :
        /\ j = Len(text) \/ ~IsWordChar(text[j + 1])
        /\ \A m \in (i + 1)..j : IsWordChar(text[m])

\* whether a token of word_tokenize starts at position i
word_start(text, i) ==
    /\ ~IsSpace(text[i])
    /\ IsWordChar(text[i]) => (i = 1 \/ ~IsWordChar(text[i - 1]))

word_tokenize(text) ==
    LET starts == SelectSeq(Indices(text), LAMBDA i : word_start(text, i))
    IN  [k \in 1..Len(starts) |->
            SubSeq(text, starts[k],
                   IF IsWordChar(text[starts[k]]) THEN word_end(text, starts[k])
                   ELSE starts[k])]

\* DataPreprocessor._nltk_tokenizer
_nltk_tokenizer(text) == word_tokenize(text)

\* the spaCy tokenizer splits the text into its runs of whitespace and of
\* other characters.  A run of whitespace is a token of its own, but a
\* space that follows a word only ends the word and is no part of the
\* token.  ends_word: position i holds such a space.
ends_word(text, i) == i > 1 /\ text[i] = 32 /\ ~IsSpace(text[i - 1])

\* whether a whitespace token starts at position i
space_start(text, i) ==
    /\ IsSpace(text[i])
    /\ ~ends_word(text, i)
    /\ i = 1 \/ ~IsSpace(text[i - 1]) \/ ends_word(text, i - 1)

\* the last position of the run of whitespace that holds position i
space_end(text, i) ==
    CHOOSE j \in i..Len(text) :
        /\ j = Len(text) \/ ~IsSpace(text[j + 1])
        /\ \A m \in (i + 1)..j : IsSpace(text[m])

spacy_loop(text) ==
    LET starts == SelectSeq(Indices(text),
                            LAMBDA i : word_start(text, i) \/ space_start(text, i))
    IN  [k \in 1..Len(starts) |->
            SubSeq(text, starts[k],
                   IF IsSpace(text[starts[k]]) THEN space_end(text, starts[k])
                   ELSE IF IsWordChar(text[starts[k]]) THEN word_end(text, starts[k])
                   ELSE starts[k])]

\* DataPreprocessor._spacy_tokenizer
_spacy_tokenizer(text) == spacy_loop(text)

\* whether a spaCy token is a whitespace token
is_space_token(tok) == IsSpace(tok[1])

\* the tokens the tagger tags: all but the whitespace tokens
spacy_words(tokens) == SelectSeq(tokens, LAMBDA tok : ~is_space_token(tok))

\* the tags a tagger may give (DT stands for every tag no pipeline keeps)
Tags == {"NNP", "NN", "VBP", "JJ", "DT"}

\* what a tagger may answer for a token list: one tag per token
Taggings(tokens, tagset) == [1..Len(tokens) -> tagset]

\* DataPreprocessor._nltk_pos_tag, with the tagger's answer tg
_nltk_pos_tag(token_list_, tg) == [i \in 1..Len(token_list_) |-> <<token_list_[i], tg[i]>>]

\* DataPreprocessor._spacy_pos_tag, with the model's tok.tag_ values: _SP
\* for a whitespace token, tg[k] for the k-th other token
_spacy_pos_tag(token_list_, tg) ==
    [i \in 1..Len(token_list_) |->
        <<token_list_[i],
          IF is_space_token(token_list_[i]) THEN "_SP"
          ELSE tg[Len(spacy_words(SubSeq(token_list_, 1, i)))]>>]

\* nltk's stopwords.words("russian") / ("english"), the entries the model's
\* alphabets can spell: a, i, an, be, by; Cyrillic a, i, v, ya
nltk_stopwords(name) ==
    IF name = "english" THEN {<<97>>, <<105>>, <<97, 110>>, <<98, 101>>, <<98, 121>>}
    ELSE {<<1072>>, <<1080>>, <<1074>>, <<1103>>}

\* nlp.Defaults.stop_words of en_core_web_sm / ru_core_news_sm, likewise
spacy_stopwords(model) ==
    IF model = "en_core_web_sm" THEN {<<97>>, <<105>>, <<97, 110>>, <<98, 101>>, <<98, 121>>}
    ELSE {<<1072>>, <<1080>>, <<1074>>, <<1103>>}

\* [w for w in token_list if not w in stop_words]
stop_filter(token_list_, stop_words) ==
    SelectSeq(token_list_, LAMBDA w : w \notin stop_words)

\* outcomes of a call
NoRet == [status |-> "none", exc |-> "", text |-> <<>>, list |-> <<>>, pct |-> 0]

ReturnText(t) == [status |-> "return", exc |-> "", text |-> t, list |-> <<>>, pct |-> 0]

ReturnList(l) == [status |-> "return", exc |-> "", text |-> <<>>, list |-> l, pct |-> 0]

ReturnPct(p) == [status |-> "return", exc |-> "", text |-> <<>>, list |-> <<>>, pct |-> p]

Raise(e) == [status |-> "raise", exc |-> e, text |-> <<>>, list |-> <<>>, pct |-> 0]

\* DataPreprocessor._nltk_stopwords_removal.  With another lang neither if
\* binds stop_words: the comprehension reads it for the first token
\* (NameError; its subclass UnboundLocalError from Python 3.12 on), and
\* never reads it when token_list is empty.
_nltk_stopwords_removal(token_list_, lg) ==
    IF lg = "ru" THEN ReturnList(stop_filter(token_list_, nltk_stopwords("russian")))
    ELSE IF lg = "en" THEN ReturnList(stop_filter(token_list_, nltk_stopwords("english")))
    ELSE IF token_list_ = <<>> THEN ReturnList(<<>>)
    ELSE Raise("NameError")

\* DataPreprocessor._spacy_stopwords_removal
_spacy_stopwords_removal(token_list_, model) ==
    stop_filter(token_list_, spacy_stopwords(model))

\* DataPreprocessor.nltk_keywords from its tag filter on
nltk_keywords_of_tagged(pos_tagged_tokens, lg) ==
    LET keywords == _filter_token_tag(pos_tagged_tokens, NltkFilterTags)
        kept == _nltk_stopwords_removal(keywords, lg)
    IN  IF kept.status = "raise" THEN kept
        ELSE ReturnList(_unique_tokens(kept.list))

\* DataPreprocessor.nltk_keywords, with the tagger's answer tg
nltk_keywords(d, lg, tg) ==
    LET cleaned == _clean_text(d, lg)
        tokens == _nltk_tokenizer(cleaned)
        pos_tagged_tokens == _nltk_pos_tag(tokens, tg)
    IN  nltk_keywords_of_tagged(pos_tagged_tokens, lg)

\* DataPreprocessor.spacy_keywords, with the model's tags tg.  With another
\* lang nlp is unbound when line 199 reads it.
spacy_keywords(d, lg, tg) ==
    IF lg \notin {"ru", "en"} THEN Raise("UnboundLocalError")
    ELSE LET nlp == IF lg = "en" THEN "en_core_web_sm" ELSE "ru_core_news_sm"
             cleaned == _clean_text(d, lg)
             tokens == _spacy_tokenizer(cleaned)
             pos_tagged_tokens == _spacy_pos_tag(tokens, tg)
             keywords == _filter_token_tag(pos_tagged_tokens, SpacyFilterTags)
             kept == _spacy_stopwords_removal(keywords, nlp)
         IN  ReturnList(_unique_tokens(kept))

(***************************************************************************)
(* DataComparator.                                                         *)
(***************************************************************************)
\* Natural numbers beyond 32 bits, as limbs of 15 bits, the least
\* significant first: the arithmetic of the doubles below
LimbBits == 15

Limb == 32768

limb_at(a, j) == IF j \in 1..Len(a) THEN a[j] ELSE 0

limbs_zeros(k) == [j \in 1..k |-> 0]

\* limbs of a number below 2^31
limbs_of(n) == <<n % Limb, (n \div Limb) % Limb, n \div (Limb * Limb)>>

\* the value of a number below 2^30
limbs_value(a) == limb_at(a, 1) + Limb * limb_at(a, 2)

\* whether a carry enters position j when the sums t, each below
\* 2 * Limb - 1, are brought back to limbs
carry_in(t, j) ==
    \E i \in 1..(j - 1) : t[i] >= Limb /\ \A k \in (i + 1)..(j - 1) : t[k] = Limb - 1

limbs_carry(t) ==
    [j \in 1..Len(t) |-> (t[j] + (IF carry_in(t, j) THEN 1 ELSE 0)) % Limb]

\* a * c + carry, for a factor c of at most Limb and a carry of at most 1
limbs_times(a, c, carry) ==
    limbs_carry([j \in 1..(Len(a) + 1) |->
                    ((limb_at(a, j) * c) % Limb) + ((limb_at(a, j - 1) * c) \div Limb)
                    + (IF j = 1 THEN carry ELSE 0)])

\* a + b
limbs_add(a, b) ==
    limbs_carry([j \in 1..((IF Len(a) > Len(b) THEN Len(a) ELSE Len(b)) + 1) |->
                    limb_at(a, j) + limb_at(b, j)])

\* a - b, for a >= b
limbs_sub(a, b) ==
    [j \in 1..Len(a) |->
        (a[j] - limb_at(b, j) + Limb
         - (IF \E i \in 1..(j - 1) : /\ a[i] < limb_at(b, i)
                                     /\ \A k \in (i + 1)..(j - 1) : a[k] = limb_at(b, k)
            THEN 1 ELSE 0)) % Limb]

\* a <= b
limbs_leq(a, b) ==
    LET differ == {j \in 1..(Len(a) + Len(b)) : limb_at(a, j) # limb_at(b, j)}
    IN  \/ differ = {}
        \/ LET t == CHOOSE j \in differ : \A k \in differ : k <= j
           IN  limb_at(a, t) < limb_at(b, t)

\* a * b, for a b of at most 4 limbs (60 bits)
limbs_mul(a, b) ==
    limbs_add(limbs_add(limbs_times(a, limb_at(b, 1), 0),
                        <<0>> \o limbs_times(a, limb_at(b, 2), 0)),
              limbs_add(<<0, 0>> \o limbs_times(a, limb_at(b, 3), 0),
                        <<0, 0, 0>> \o limbs_times(a, limb_at(b, 4), 0)))

\* bit i of a, the lowest being bit 1
limbs_bit(a, i) == (limb_at(a, ((i - 1) \div LimbBits) + 1) \div (2 ^ ((i - 1) % LimbBits))) % 2

\* the position of the highest set bit, 0 for zero
limbs_top(a) ==
    IF \A j \in 1..Len(a) : a[j] = 0 THEN 0
    ELSE LET t == CHOOSE j \in 1..Len(a) : a[j] # 0 /\ \A k \in (j + 1)..Len(a) : a[k] = 0
             w == CHOOSE n \in 1..LimbBits : 2 ^ (n - 1) <= a[t] /\ a[t] < 2 ^ n
         IN  LimbBits * (t - 1) + w

\* a without its leading zero limbs
limbs_trim(a) == SubSeq(a, 1, (limbs_top(a) + LimbBits - 1) \div LimbBits)

\* the first n limbs of a
limbs_take(a, n) == [j \in 1..n |-> limb_at(a, j)]

\* a * 2^k
limbs_shl(a, k) == limbs_zeros(k \div LimbBits) \o limbs_times(a, 2 ^ (k % LimbBits), 0)

\* floor(a / 2^k)
limbs_shr(a, k) ==
    LET q == k \div LimbBits
        sh == k % LimbBits
    IN  [j \in 1..(IF Len(a) > q THEN Len(a) - q ELSE 0) |->
            (limb_at(a, j + q) \div (2 ^ sh))
            + (limb_at(a, j + q + 1) % (2 ^ sh)) * 2 ^ (LimbBits - sh)]

\* whether a has a set bit among its lowest k
limbs_low(a, k) == \E i \in 1..k : limbs_bit(a, i) = 1

\* A double is held as [m, e], its value m * 2^e with m below 2^53.
\* fl_round: the double nearest to a * 2^e, a tie going to the even
\* mantissa
fl_round(a, e) ==
    LET drop == limbs_top(a) - 53
    IN  IF drop <= 0 THEN [m |-> limbs_trim(a), e |-> e]
        ELSE LET kept == limbs_shr(a, drop)
                 up == /\ limbs_bit(a, drop) = 1
                       /\ limbs_low(a, drop - 1) \/ limbs_bit(kept, 1) = 1
             IN  [m |-> limbs_trim(IF up THEN limbs_add(kept, <<1>>) ELSE kept),
                  e |-> e + drop]

fl_zero == [m |-> <<>>, e |-> 0]

\* the double of an integer below 2^31
fl_int(k) == [m |-> limbs_trim(limbs_of(k)), e |-> 0]

\* the largest of qhat, qhat - 1, ... 0 that is at most c, where c is the
\* largest g with g * den <= rem, for c <= qhat <= c + 3
div_fit(den, rem, qhat) ==
    IF qhat <= 0 \/ limbs_leq(limbs_times(den, qhat, 0), rem) THEN qhat
    ELSE IF qhat <= 1 \/ limbs_leq(limbs_times(den, qhat - 1, 0), rem) THEN qhat - 1
    ELSE IF qhat <= 2 \/ limbs_leq(limbs_times(den, qhat - 2, 0), rem) THEN qhat - 2
    ELSE qhat - 3

\* the digit floor(rem / den), for rem < den * Limb and a den of n limbs
\* whose last limb is 2^14 or more: the two leading limbs of rem by the
\* leading limb of den give it or up to 2 more
div_digit(den, rem) ==
    LET n == Len(den)
        qhat == (limb_at(rem, n + 1) * Limb + limb_at(rem, n)) \div den[n]
    IN  div_fit(den, rem, IF qhat < Limb THEN qhat ELSE Limb - 1)

\* one step of the long division by den: num's last (most significant)
\* limb comes down to what remains, and the quotient gets its next limb
div_step(den, st) ==
    LET r == <<st.num[Len(st.num)]>> \o st.rem
        g == div_digit(den, r)
    IN  [num |-> SubSeq(st.num, 1, Len(st.num) - 1),
         rem |-> limbs_take(limbs_sub(r, limbs_times(den, g, 0)), Len(den)),
         limbs |-> <<g>> \o st.limbs]

RECURSIVE long_div(_, _)
long_div(den, st) == IF st.num = <<>> THEN st ELSE long_div(den, div_step(den, st))

\* limbs of the quotient: the first may be 0, the others hold 60 bits or
\* more
QuotLimbs == 6

\* k / d for an integer 0 < k < 2^31 and a double d > 0.  Both are shifted
\* to bring d's leading limb to 2^14 or more, and k by whole limbs to give
\* the quotient QuotLimbs limbs; its lowest bit then stands for what
\* remains.
fl_div(k, d) ==
    LET sh == (LimbBits - (limbs_top(d.m) % LimbBits)) % LimbBits
        den == limbs_trim(limbs_times(d.m, 2 ^ sh, 0))
        kl == limbs_trim(limbs_times(limbs_of(k), 2 ^ sh, 0))
        zeros == Len(den) + QuotLimbs - 1 - Len(kl)
        num == limbs_zeros(zeros) \o kl
        q == long_div(den, [num |-> SubSeq(num, 1, QuotLimbs),
                            rem |-> SubSeq(num, QuotLimbs + 1, Len(num)),
                            limbs |-> <<>>])
    IN  fl_round(limbs_times(q.limbs, 2, IF limbs_top(q.rem) = 0 THEN 0 ELSE 1),
                 0 - LimbBits * zeros - 1 - d.e)

\* a * b
fl_mul(a, b) == fl_round(limbs_mul(a.m, b.m), a.e + b.e)

\* a + b
fl_add(a, b) ==
    LET e == IF a.e < b.e THEN a.e ELSE b.e
    IN  fl_round(limbs_add(limbs_shl(a.m, a.e - e), limbs_shl(b.m, b.e - e)), e)

\* the integer nearest to a * 2^(-f), a tie going to the even one
limbs_rint(a, f) ==
    LET whole == limbs_value(limbs_shr(a, f))
    IN  IF limbs_bit(a, f) = 1 /\ (limbs_low(a, f - 1) \/ whole % 2 = 1) THEN whole + 1
        ELSE whole

\* Python's round(x, 2) of a double 0 <= x < 2^15, in hundredths: the
\* hundredth nearest to the double's exact value, a tie going to the even
\* one
py_round2(x) ==
    IF x.e >= 0 THEN limbs_value(limbs_shl(limbs_times(x.m, 100, 0), x.e))
    ELSE limbs_rint(limbs_times(x.m, 100, 0), 0 - x.e)

\* round((num / den) * 100, 2) in hundredths, for 0 <= num <= den, den > 0,
\* as the code computes it: the double num / den, the double of its
\* product with 100, and Python's round of that double
round2_ratio(num, den) ==
    IF num = 0 THEN 0
    ELSE py_round2(fl_mul(fl_div(num, fl_int(den)), fl_int(100)))

\* len([w for w in ws if w in others])
count_in(ws, others) == Len(SelectSeq(ws, LAMBDA w : InSeq(w, others)))

\* DataComparator.matchKeywords, with the tagger's answers for the two texts
matchKeywords(resume, vacancy, lg, tgR, tgV) ==
    LET keywords_resume == nltk_keywords(resume, lg, tgR)
        keywords_vacancy == nltk_keywords(vacancy, lg, tgV)
    IN  IF keywords_resume.status = "raise" THEN keywords_resume
        ELSE IF keywords_vacancy.status = "raise" THEN keywords_vacancy
        ELSE LET vacancy_keywords_in_resume_count ==
                     count_in(keywords_vacancy.list, keywords_resume.list)
                 vacancy_keywords_count == Len(keywords_vacancy.list)
             IN  IF vacancy_keywords_count = 0 THEN Raise("ZeroDivisionError")
                 ELSE ReturnPct(round2_ratio(vacancy_keywords_in_resume_count,
                                             vacancy_keywords_count))

\* CountVectorizer's analyzer: the lowercased text's maximal runs of two or
\* more word characters (token_pattern (?u)\b\w\w+\b)
analyze_loop(text) ==
    LET starts == SelectSeq(Indices(text),
                            LAMBDA i : /\ IsWordChar(text[i])
                                       /\ i = 1 \/ ~IsWordChar(text[i - 1]))
        runs == [k \in 1..Len(starts) |-> SubSeq(text, starts[k], word_end(text, starts[k]))]
    IN  SelectSeq(runs, LAMBDA r : Len(r) >= 2)

analyze(doc) == analyze_loop(lower(doc))

SeqToSet(s) == {s[i] : i \in 1..Len(s)}

\* the next digit of a square root: the largest g below Limb with
\* (2 * root * Limb + g) * g <= rem * Limb^2, for rem <= 2 * root and a root
\* whose last limb is 2^14 or more; floor(rem * Limb / (2 * root)) is it or
\* 1 more
sqrt_fit(root, rem, qhat) ==
    IF qhat <= 0 \/ limbs_leq(limbs_times(<<qhat>> \o limbs_times(root, 2, 0), qhat, 0),
                              <<0, 0>> \o rem) THEN qhat
    ELSE IF qhat <= 1 \/ limbs_leq(limbs_times(<<qhat - 1>> \o limbs_times(root, 2, 0), qhat - 1, 0),
                                   <<0, 0>> \o rem) THEN qhat - 1
    ELSE IF qhat <= 2 \/ limbs_leq(limbs_times(<<qhat - 2>> \o limbs_times(root, 2, 0), qhat - 2, 0),
                                   <<0, 0>> \o rem) THEN qhat - 2
    ELSE IF qhat <= 3 \/ limbs_leq(limbs_times(<<qhat - 3>> \o limbs_times(root, 2, 0), qhat - 3, 0),
                                   <<0, 0>> \o rem) THEN qhat - 3
    ELSE qhat - 4

sqrt_digit(root, rem) ==
    LET n == Len(root) + 1
        num == limbs_times(<<0>> \o rem, 2 ^ (LimbBits - 1), 0)
        qhat == (limb_at(num, n + 1) * Limb + limb_at(num, n)) \div root[n - 1]
    IN  sqrt_fit(root, rem, IF qhat < Limb THEN qhat ELSE Limb - 1)

\* one more limb of a square root, from a root and what remains under it
sqrt_step(st) ==
    LET g == sqrt_digit(st.root, st.rem)
    IN  [root |-> <<g>> \o st.root,
         rem |-> limbs_trim(limbs_sub(<<0, 0>> \o st.rem,
                                      limbs_times(<<g>> \o limbs_times(st.root, 2, 0), g, 0))),
         k |-> st.k - 1]

RECURSIVE sqrt_steps(_)
sqrt_steps(st) == IF st.k = 0 THEN st ELSE sqrt_steps(sqrt_step(st))

\* limbs of the root after its first: 45 bits after 15
SqrtLimbs == 3

\* sqrt(sum_) of a double holding an integer sum_, 0 <= sum_ < 2^30,
\* correctly rounded.  sum_ is scaled by a power of 4 into 2^28..2^30 - 1,
\* the root's first limb is found among 2^14..2^15 - 1, the others follow.
fl_sqrt(sum_) ==
    IF sum_ = 0 THEN fl_zero
    ELSE LET width == CHOOSE n \in 1..30 : 2 ^ (n - 1) <= sum_ /\ sum_ < 2 ^ n
             t == (30 - width) \div 2
             scaled == sum_ * 4 ^ t
             high == CHOOSE r \in 64..127 : r * r <= scaled \div 65536
                                            /\ scaled \div 65536 < (r + 1) * (r + 1)
             first == CHOOSE r \in (256 * high)..(256 * high + 255) :
                          r * r <= scaled /\ scaled < (r + 1) * (r + 1)
             s == sqrt_steps([root |-> <<first>>,
                              rem |-> limbs_trim(limbs_of(scaled - first * first)),
                              k |-> SqrtLimbs])
         IN  fl_round(limbs_times(s.root, 2, IF s.rem = <<>> THEN 0 ELSE 1),
                      0 - LimbBits * SqrtLimbs - t - 1)

\* the order of Python's strings, by code point
term_less(a, b) ==
    \E i \in 1..Len(b) : /\ Len(a) >= i - 1
                         /\ \A j \in 1..(i - 1) : a[j] = b[j]
                         /\ Len(a) = i - 1 \/ a[i] < b[i]

\* CountVectorizer.fit_transform: the sorted vocabulary of the documents
\* and a row of counts for each
vocabulary_(docs) ==
    LET terms == UNION {SeqToSet(docs[i]) : i \in 1..Len(docs)}
    IN  [k \in 1..Cardinality(terms) |->
            CHOOSE t \in terms : Cardinality({u \in terms : term_less(u, t)}) = k - 1]

fit_transform(docs) ==
    LET vocabulary == vocabulary_(docs)
    IN  [i \in 1..Len(docs) |->
            [j \in 1..Len(vocabulary) |->
                Cardinality({p \in 1..Len(docs[i]) : docs[i][p] = vocabulary[j]})]]

\* the sum of the squares of a row
sum_squares(row) ==
    Cardinality(UNION {{j} \X (1..row[j]) \X (1..row[j]) : j \in 1..Len(row)})

\* sklearn's inplace_csr_row_normalize_l2 on one row: each count divided by
\* the square root of the sum of the squares; a row whose sum (and so
\* whose root) is zero is left alone
normalize(row) ==
    LET norm == fl_sqrt(sum_squares(row))
    IN  IF norm = fl_zero THEN [j \in 1..Len(row) |-> fl_zero]
        ELSE [j \in 1..Len(row) |-> IF row[j] = 0 THEN fl_zero ELSE fl_div(row[j], norm)]

\* the columns a sparse row holds
columns(x) == SelectSeq(Indices(x), LAMBDA j : x[j] # fl_zero)

\* the sparse product of two rows: the products of the columns both rows
\* hold, added up in column order
RECURSIVE dot_loop(_, _, _)
dot_loop(x, y, st) ==
    IF st.columns = <<>> THEN st.sums
    ELSE dot_loop(x, y, [columns |-> Tail(st.columns),
                         sums |-> fl_add(st.sums, fl_mul(x[Head(st.columns)],
                                                         y[Head(st.columns)]))])

dot(x, y) ==
    LET held == columns(y)
    IN  dot_loop(x, y, [columns |-> SelectSeq(columns(x), LAMBDA j : InSeq(j, held)),
                        sums |-> fl_zero])

\* cosine_similarity(count_matrix)[0][1]
cosine_similarity(count_matrix) ==
    dot(normalize(count_matrix[1]), normalize(count_matrix[2]))

\* round(c * 100, 2) in hundredths for the numpy double c: numpy rounds by
\* rint(x * 100) / 100
round2_cosine(c) ==
    LET matchPercentage == fl_mul(c, fl_int(100))
        scaled == fl_mul(matchPercentage, fl_int(100))
    IN  IF scaled.e >= 0 THEN limbs_value(limbs_shl(scaled.m, scaled.e))
        ELSE limbs_rint(scaled.m, 0 - scaled.e)

\* DataComparator.matchSimilarity: fit_transform raises ValueError on an
\* empty vocabulary; a cosine of zero stays zero
matchSimilarity(resume, vacancy) ==
    LET data_ == <<analyze(resume), analyze(vacancy)>>
    IN  IF vocabulary_(data_) = <<>> THEN Raise("ValueError")
        ELSE LET c == cosine_similarity(fit_transform(data_))
             IN  IF c = fl_zero THEN ReturnPct(0) ELSE ReturnPct(round2_cosine(c))

(***************************************************************************)
(* Inputs.                                                                 *)
(***************************************************************************)
SeqsUpTo(S, n) == UNION {[1..k -> S] : k \in 0..n}

\* texts for _clean_text
Texts == SeqsUpTo(Chars, MaxLen)

\* words of a token list: a A b 1, Cyrillic be BE io IO
TokWords == {<<97>>, <<65>>, <<98>>, <<49>>, <<1073>>, <<1041>>, <<1105>>, <<1025>>}

TokenLists == SeqsUpTo(TokWords, MaxToks)

\* tagged words of a tagged token list
TaggedWords == {<<w, t>> : w \in {<<97>>, <<98>>}, t \in Tags}

TaggedLists == SeqsUpTo(TaggedWords, MaxToks)

RECURSIVE join(_)
join(ws) ==
    IF ws = <<>> THEN <<>>
    ELSE IF Len(ws) = 1 THEN ws[1]
    ELSE ws[1] \o <<32>> \o join(Tail(ws))

\* words of a document: a A bb Bb , and Cyrillic A, be
DocWords == {<<97>>, <<65>>, <<98, 98>>, <<66, 98>>, <<44>>, <<1040>>, <<1073>>}

Docs == {join(ws) : ws \in SeqsUpTo(DocWords, MaxDocWords)}

\* words of a document given to a scorer: a A bb Bb ,
MatchWords == {<<97>>, <<65>>, <<98, 98>>, <<66, 98>>, <<44>>}

MatchDocs == {join(ws) : ws \in SeqsUpTo(MatchWords, MaxDocWords)}

\* the tagger's tags there: one the pipeline keeps, one it drops
MatchTags == {"NN", "DT"}

\* documents of a process that makes several calls: "", "A bb"
ProcDocs == {<<>>, <<65, 32, 98, 98>>}

(***************************************************************************)
(* Language resources.                                                     *)
(***************************************************************************)
Resources == {"stopwords_russian", "stopwords_english",
              "ru_core_news_sm", "en_core_web_sm"}

NoLoads == [r \in Resources |-> 0]

\* what one _nltk_stopwords_removal call reads: stopwords.words(...) runs
\* in every call, nothing keeps its result
nltk_loads(lg) ==
    IF lg = "ru" THEN {"stopwords_russian"}
    ELSE IF lg = "en" THEN {"stopwords_english"}
    ELSE {}

\* what one spacy_keywords call loads: spacy.load(...) runs in every call
spacy_loads(lg) ==
    IF lg = "ru" THEN {"ru_core_news_sm"}
    ELSE IF lg = "en" THEN {"en_core_web_sm"}
    ELSE {}

Bump(l, R, k) == [r \in Resources |-> IF r \in R THEN l[r] + k ELSE l[r]]

(***************************************************************************)
(* The operations: what a call does to the state, given its arguments.     *)
(***************************************************************************)
NltkKeywordsDo(d, lg, tagset) ==
    LET tokens == _nltk_tokenizer(_clean_text(d, lg))
    IN  \E tg \in Taggings(tokens, tagset) :
            /\ tagged' = _nltk_pos_tag(tokens, tg)
            /\ ret' = nltk_keywords(d, lg, tg)
            /\ loads' = Bump(loads, nltk_loads(lg), 1)

SpacyKeywordsDo(d, lg, tagset) ==
    IF lg \notin {"ru", "en"}
    THEN /\ tagged' = <<>>
         /\ ret' = spacy_keywords(d, lg, <<>>)
         /\ loads' = loads
    ELSE LET tokens == _spacy_tokenizer(_clean_text(d, lg))
         IN  \E tg \in Taggings(spacy_words(tokens), tagset) :
                 /\ tagged' = _spacy_pos_tag(tokens, tg)
                 /\ ret' = spacy_keywords(d, lg, tg)
                 /\ loads' = Bump(loads, spacy_loads(lg), 1)

\* the tagger is a function: equal token lists get equal tags.  When the
\* resume's extraction raises, the vacancy's never runs.
MatchKeywordsDo(resume, vacancy, lg, tagset) ==
    LET tokR == _nltk_tokenizer(_clean_text(resume, lg))
        tokV == _nltk_tokenizer(_clean_text(vacancy, lg))
    IN  \E tgR \in Taggings(tokR, tagset), tgV \in Taggings(tokV, tagset) :
            /\ tokR = tokV => tgR = tgV
            /\ LET first == nltk_keywords(resume, lg, tgR)
               IN  /\ tagged' = _nltk_pos_tag(tokR, tgR)
                   /\ tagged2' = IF first.status = "raise" THEN <<>>
                                 ELSE _nltk_pos_tag(tokV, tgV)
                   /\ loads' = Bump(loads, nltk_loads(lg),
                                    IF first.status = "raise" THEN 1 ELSE 2)
            /\ ret' = matchKeywords(resume, vacancy, lg, tgR, tgV)

MatchSimilarityDo(resume, vacancy) ==
    /\ ret' = matchSimilarity(resume, vacancy)
    /\ UNCHANGED <<tagged, tagged2, loads>>

(***************************************************************************)
(* One call of a stage of the pipeline, its arguments drawn by the         *)
(* initial state.                                                          *)
(***************************************************************************)
Blank ==
    /\ lang = ""
    /\ data = <<>>
    /\ data2 = <<>>
    /\ token_list = <<>>
    /\ tagged_token_list = <<>>
    /\ filter_tag_list = <<>>

Fresh ==
    /\ tagged = <<>>
    /\ tagged2 = <<>>
    /\ ret = NoRet
    /\ loads = NoLoads
    /\ ncalls = 0

InitStages ==
    /\ pc = "call"
    /\ Fresh
    /\ \/ /\ op = "_clean_text"
          /\ lang \in Langs
          /\ data \in Texts
          /\ data2 = <<>>
          /\ token_list = <<>>
          /\ tagged_token_list = <<>>
          /\ filter_tag_list = <<>>
       \/ /\ op = "_unique_tokens"
          /\ token_list \in TokenLists
          /\ lang = ""
          /\ data = <<>>
          /\ data2 = <<>>
          /\ tagged_token_list = <<>>
          /\ filter_tag_list = <<>>
       \/ /\ op = "_filter_token_tag"
          /\ tagged_token_list \in TaggedLists
          /\ filter_tag_list \in {NltkFilterTags, SpacyFilterTags}
          /\ lang = ""
          /\ data = <<>>
          /\ data2 = <<>>
          /\ token_list = <<>>
       \/ /\ op = "_nltk_stopwords_removal"
          /\ token_list \in TokenLists
          /\ lang \in Langs
          /\ data = <<>>
          /\ data2 = <<>>
          /\ tagged_token_list = <<>>
          /\ filter_tag_list = <<>>

args == <<op, lang, data, data2, token_list, tagged_token_list, filter_tag_list>>

CleanTextCall ==
    /\ pc = "call"
    /\ op = "_clean_text"
    /\ ret' = ReturnText(_clean_text(data, lang))
    /\ pc' = "done"
    /\ ncalls' = ncalls + 1
    /\ UNCHANGED <<args, tagged, tagged2, loads>>

UniqueTokensCall ==
    /\ pc = "call"
    /\ op = "_unique_tokens"
    /\ ret' = ReturnList(_unique_tokens(token_list))
    /\ pc' = "done"
    /\ ncalls' = ncalls + 1
    /\ UNCHANGED <<args, tagged, tagged2, loads>>

FilterTokenTagCall ==
    /\ pc = "call"
    /\ op = "_filter_token_tag"
    /\ ret' = ReturnList(_filter_token_tag(tagged_token_list, filter_tag_list))
    /\ pc' = "done"
    /\ ncalls' = ncalls + 1
    /\ UNCHANGED <<args, tagged, tagged2, loads>>

NltkStopwordsRemovalCall ==
    /\ pc = "call"
    /\ op = "_nltk_stopwords_removal"
    /\ ret' = _nltk_stopwords_removal(token_list, lang)
    /\ loads' = Bump(loads, nltk_loads(lang), 1)
    /\ pc' = "done"
    /\ ncalls' = ncalls + 1
    /\ UNCHANGED <<args, tagged, tagged2>>

NextStages ==
    \/ CleanTextCall
    \/ UniqueTokensCall
    \/ FilterTokenTagCall
    \/ NltkStopwordsRemovalCall

SpecStages == InitStages /\ [][NextStages]_vars

(***************************************************************************)
(* One call of an extractor.                                               *)
(***************************************************************************)
InitExtract ==
    /\ pc = "call"
    /\ Fresh
    /\ op \in {"nltk_keywords", "spacy_keywords"}
    /\ lang \in Langs
    /\ data \in Docs
    /\ data2 = <<>>
    /\ token_list = <<>>
    /\ tagged_token_list = <<>>
    /\ filter_tag_list = <<>>

NltkKeywordsCall ==
    /\ pc = "call"
    /\ op = "nltk_keywords"
    /\ NltkKeywordsDo(data, lang, Tags)
    /\ pc' = "done"
    /\ ncalls' = ncalls + 1
    /\ UNCHANGED <<args, tagged2>>

SpacyKeywordsCall ==
    /\ pc = "call"
    /\ op = "spacy_keywords"
    /\ SpacyKeywordsDo(data, lang, Tags)
    /\ pc' = "done"
    /\ ncalls' = ncalls + 1
    /\ UNCHANGED <<args, tagged2>>

NextExtract ==
    \/ NltkKeywordsCall
    \/ SpacyKeywordsCall

SpecExtract == InitExtract /\ [][NextExtract]_vars

(***************************************************************************)
(* One call of a scorer on a DataComparator.                               *)
(***************************************************************************)
InitMatch ==
    /\ pc = "call"
    /\ Fresh
    /\ op \in {"matchKeywords", "matchSimilarity"}
    /\ lang \in Langs
    /\ data \in MatchDocs
    /\ data2 \in MatchDocs
    /\ token_list = <<>>
    /\ tagged_token_list = <<>>
    /\ filter_tag_list = <<>>

MatchKeywordsCall ==
    /\ pc = "call"
    /\ op = "matchKeywords"
    /\ MatchKeywordsDo(data, data2, lang, MatchTags)
    /\ pc' = "done"
    /\ ncalls' = ncalls + 1
    /\ UNCHANGED args

MatchSimilarityCall ==
    /\ pc = "call"
    /\ op = "matchSimilarity"
    /\ MatchSimilarityDo(data, data2)
    /\ pc' = "done"
    /\ ncalls' = ncalls + 1
    /\ UNCHANGED args

NextMatch ==
    \/ MatchKeywordsCall
    \/ MatchSimilarityCall

SpecMatch == InitMatch /\ [][NextMatch]_vars

(***************************************************************************)
(* A process that makes up to MaxCalls calls, one after the other.         *)
(***************************************************************************)
Init ==
    /\ pc = "idle"
    /\ op = "none"
    /\ Blank
    /\ Fresh

NltkKeywords ==
    /\ ncalls < MaxCalls
    /\ \E d \in ProcDocs, lg \in Langs :
           /\ NltkKeywordsDo(d, lg, MatchTags)
           /\ data' = d
           /\ lang' = lg
    /\ op' = "nltk_keywords"
    /\ pc' = "done"
    /\ ncalls' = ncalls + 1
    /\ tagged2' = <<>>
    /\ data2' = <<>>
    /\ UNCHANGED <<token_list, tagged_token_list, filter_tag_list>>

SpacyKeywords ==
    /\ ncalls < MaxCalls
    /\ \E d \in ProcDocs, lg \in Langs :
           /\ SpacyKeywordsDo(d, lg, MatchTags)
           /\ data' = d
           /\ lang' = lg
    /\ op' = "spacy_keywords"
    /\ pc' = "done"
    /\ ncalls' = ncalls + 1
    /\ tagged2' = <<>>
    /\ data2' = <<>>
    /\ UNCHANGED <<token_list, tagged_token_list, filter_tag_list>>

MatchKeywords ==
    /\ ncalls < MaxCalls
    /\ \E r \in ProcDocs, v \in ProcDocs, lg \in Langs :
           /\ MatchKeywordsDo(r, v, lg, MatchTags)
           /\ data' = r
           /\ data2' = v
           /\ lang' = lg
    /\ op' = "matchKeywords"
    /\ pc' = "done"
    /\ ncalls' = ncalls + 1
    /\ UNCHANGED <<token_list, tagged_token_list, filter_tag_list>>

MatchSimilarity ==
    /\ ncalls < MaxCalls
    /\ \E r \in ProcDocs, v \in ProcDocs, lg \in Langs :
           /\ MatchSimilarityDo(r, v)
           /\ data' = r
           /\ data2' = v
           /\ lang' = lg
    /\ op' = "matchSimilarity"
    /\ pc' = "done"
    /\ ncalls' = ncalls + 1
    /\ UNCHANGED <<token_list, tagged_token_list, filter_tag_list>>

Next ==
    \/ NltkKeywords
    \/ SpacyKeywords
    \/ MatchKeywords
    \/ MatchSimilarity

Spec == Init /\ [][Next]_vars

(***************************************************************************)
(* Properties.                                                             *)
(***************************************************************************)
Supported == {"ru", "en"}

Done(o) == pc = "done" /\ op = o

IsUpper(c) == c \in (65..90) \cup (1024..1071)

Tokens(tagged_list) == [i \in 1..Len(tagged_list) |-> tagged_list[i][1]]

\* the least position of token_list whose lowercased token is k
FirstAt(k) == CHOOSE p \in 1..Len(token_list) :
                  /\ lower(token_list[p]) = k
                  /\ \A q \in 1..(p - 1) : lower(token_list[q]) # k

\* C1: matchKeywords returns 0.0, and raises nothing, whenever the vacancy
\* text's KeywordSet is empty.
C1_EmptyVacancyGivesZero ==
    (/\ Done("matchKeywords")
     /\ lang \in Supported
     /\ nltk_keywords_of_tagged(tagged2, lang).list = <<>>)
    => (ret.status = "return" /\ ret.pct = 0)

\* C2: with a lang other than "ru" and "en" an extractor fails with
\* UnsupportedLanguageError: it returns no KeywordSet and raises no other
\* error.
C2_UnsupportedLangRaises ==
    (/\ pc = "done"
     /\ op \in {"nltk_keywords", "spacy_keywords"}
     /\ lang \notin Supported)
    => (ret.status = "raise" /\ ret.exc = "UnsupportedLanguageError")

\* C3: the list _unique_tokens returns holds only lowercase strings, no two
\* of them equal ignoring case, exactly the lowercased forms of the input
\* tokens, in the order of their first occurrence in the input.
C3_UniqueLowerFirstOccurrence ==
    Done("_unique_tokens") =>
        LET out == ret.list
        IN  /\ ret.status = "return"
            /\ \A i \in 1..Len(out) : \A j \in 1..Len(out[i]) : ~IsUpper(out[i][j])
            /\ \A i, j \in 1..Len(out) : i # j => lower(out[i]) # lower(out[j])
            /\ SeqToSet(out) = {lower(token_list[p]) : p \in 1..Len(token_list)}
            /\ \A i, j \in 1..Len(out) : i < j => FirstAt(out[i]) < FirstAt(out[j])

\* C3's case: an input with the same word in two capitalizations, and another
C3_Witness ==
    /\ Done("_unique_tokens")
    /\ token_list = << <<65>>, <<98>>, <<97>> >>
    /\ ret.list = << <<97>>, <<98>> >>

\* the allow-list the specification gives each path
AllowedTags(path_tags) ==
    IF path_tags = NltkFilterTags THEN {"NNP", "NN", "VBP", "JJ"} ELSE {"NNP"}

KeptAt(tagged_list, tags) ==
    {i \in 1..Len(tagged_list) : _filter_token_tag(<<tagged_list[i]>>, tags) # <<>>}

\* C8: the tag filter keeps a tagged token exactly when its tag is in the
\* path's allow-list ({NNP, NN, VBP, JJ} for NLTK, {NNP} for spaCy), in order
\* and with multiplicity; what the spaCy filter keeps the NLTK filter keeps.
C8_TagFilterAllowLists ==
    Done("_filter_token_tag") =>
        /\ ret.status = "return"
        /\ ret.list = Tokens(SelectSeq(tagged_token_list,
                                 LAMBDA t : t[2] \in AllowedTags(filter_tag_list)))
        /\ KeptAt(tagged_token_list, SpacyFilterTags)
               \subseteq KeptAt(tagged_token_list, NltkFilterTags)

\* C8's case: the NLTK filter keeps an adjective the spaCy filter drops,
\* keeps a proper noun and drops a determiner
C8_Witness ==
    /\ Done("_filter_token_tag")
    /\ filter_tag_list = NltkFilterTags
    /\ tagged_token_list = << <<(<<97>>), "NNP">>, <<(<<98>>), "JJ">>, <<(<<97>>), "DT">> >>
    /\ ret.list = << <<97>>, <<98>> >>
    /\ KeptAt(tagged_token_list, SpacyFilterTags) = {1}
    /\ KeptAt(tagged_token_list, NltkFilterTags) = {1, 2}

\* C4: matchKeywords returns a value in [0, 100], and exactly 100.0 when the
\* resume text and the vacancy text are the same text.
C4_KeywordsRangeAndSelfMatch ==
    (Done("matchKeywords") /\ lang \in Supported) =>
        /\ ret.status = "return"
        /\ ret.pct \in 0..10000
        /\ data = data2 => ret.pct = 10000

\* C5: matchSimilarity returns 0.0, and raises nothing, when the resume
\* text, the vacancy text or both are empty or give a zero count vector.
C5_ZeroVectorGivesZero ==
    (/\ Done("matchSimilarity")
     /\ \/ data = <<>>
        \/ data2 = <<>>
        \/ analyze(data) = <<>>
        \/ analyze(data2) = <<>>)
    => (ret.status = "return" /\ ret.pct = 0)

\* C6: matchSimilarity returns a value in [0, 100], and exactly 100.0 when
\* the resume text and the vacancy text are the same non-empty text.
C6_SimilarityRangeAndSelfMatch ==
    Done("matchSimilarity") =>
        /\ ret.status = "return"
        /\ ret.pct \in 0..10000
        /\ (data = data2 /\ data # <<>>) => ret.pct = 10000

\* the letters of each language: the Russian alphabet (with io, IO), the
\* Latin alphabet
IsLetterOf(lg, c) ==
    IF lg = "ru" THEN c \in (1040..1103) \cup {1025, 1105}
    ELSE c \in (65..90) \cup (97..122)

\* C7: for "ru" and "en", _clean_text returns the input's letters of the
\* language (every Cyrillic letter, every Latin letter), digits and
\* whitespace, in their order, with a space for every '/', and nothing else.
C7_CleanTextKeepsAllowList ==
    (Done("_clean_text") /\ lang \in Supported) =>
        /\ ret.status = "return"
        /\ LET kept == SelectSeq(data, LAMBDA c : \/ IsLetterOf(lang, c)
                                                  \/ c \in 48..57
                                                  \/ IsSpace(c)
                                                  \/ c = 47)
           IN  ret.text = [i \in 1..Len(kept) |-> IF kept[i] = 47 THEN 32 ELSE kept[i]]

\* C9: for "ru" and "en", no entry of the KeywordSet nltk_keywords returns
\* is a stopword of the language.
C9_NoStopwordInKeywords ==
    (Done("nltk_keywords") /\ lang \in Supported) =>
        /\ ret.status = "return"
        /\ \A i \in 1..Len(ret.list) :
               ret.list[i] \notin nltk_stopwords(IF lang = "ru" THEN "russian"
                                                 ELSE "english")

\* C10: over the calls of one process, each language resource is loaded at
\* most once.
C10_ResourcesLoadedOnce == \A r \in Resources : loads[r] <= 1

(***************************************************************************)
(* What the scorers do where their extraction and vectorization succeed.   *)
(***************************************************************************)
\* matchKeywords with a non-empty vacancy KeywordSet: in [0, 100], and 100.0
\* for equal texts
KeywordsScoreWhereDefined ==
    (/\ Done("matchKeywords")
     /\ lang \in Supported
     /\ nltk_keywords_of_tagged(tagged2, lang).list # <<>>)
    => /\ ret.status = "return"
       /\ ret.pct \in 0..10000
       /\ data = data2 => ret.pct = 10000

\* matchSimilarity with a non-empty vocabulary: in [0, 100], 0.0 when a text
\* has no term, 100.0 for equal texts with a term
SimilarityScoreWhereDefined ==
    (/\ Done("matchSimilarity")
     /\ analyze(data) \o analyze(data2) # <<>>)
    => /\ ret.status = "return"
       /\ ret.pct \in 0..10000
       /\ (analyze(data) = <<>> \/ analyze(data2) = <<>>) => ret.pct = 0
       /\ (data = data2) => ret.pct = 10000

====
